---- MODULE Spec2Model ----
(***************************************************************************)
(* mfc_extract_keys: extraction of the sector keys of a raw Mifare Classic *)
(* 1K/4K dump and their conversion to the mfocGUI (a/b file pair) or the   *)
(* Proxmark (single .bin) key format.                                      *)
(*                                                                         *)
(* The model follows main() statement by statement.  The environment       *)
(* (command line, the dump on disk, malloc, fopen, fread, fwrite) chooses  *)
(* its answers nondeterministically.  Numbers wider than 31 bits           *)
(* (uint64_t) are kept as 16 hexadecimal digits, most significant first,   *)
(* so the 64-bit width of bytes_to_num is kept exactly.  unsigned long is  *)
(* taken to be 64 bits wide (LP64), which makes "%08lx" of a uint64_t      *)
(* defined.                                                                *)
(***************************************************************************)
EXTENDS Integers, Sequences, FiniteSets, TLC

(* ------------------------------------------------------------------ *)
(* Program constants                                                  *)
(* ------------------------------------------------------------------ *)
UID_SIZE == 8
KEY_SIZE == 6
KEYS_1K == 16
KEYS_4K == 40
FILE_SIZE_1K == 1024
FILE_SIZE_4K == 4096
\* char filename[15]
FILENAME_SIZE == 15
\* the first key location and the skip over the access bytes
FIRST_KEY_OFFSET == 48
ACCESS_SKIP == 4
\* the two strides of the Mifare Classic layout (0x30, 0xF0)
STRIDE_SMALL == 48
STRIDE_LARGE == 240
\* the last sector index that is followed by the small stride is 30 (i < 31)
STRIDE_THRESHOLD == 31
\* bits of the packed options byte
OPT_MFOC == 2
OPT_PROXMARK == 8
OPT_1K == 97
OPT_4K == 244
MASK_DENSITY == 5
MASK_SIZE == 240
MASK_MODE == 10
\* number of UID bytes that make the number in the header and the file names
UID_NUM_LEN == 4
\* minimum field widths of "%08lx" and "%012lx"
HEX_WIDTH == 8
KEY_HEX_WIDTH == 12

(* ------------------------------------------------------------------ *)
(* Bounds of the model                                                *)
(* ------------------------------------------------------------------ *)
\* number of option characters on the command line
MaxFlags == 2

(* ------------------------------------------------------------------ *)
(* uint8_t arithmetic                                                 *)
(* ------------------------------------------------------------------ *)
RECURSIVE BitAndN(_, _, _)
BitAndN(a, b, n) ==
    IF n = 0 THEN 0
    ELSE (IF a % 2 = 1 /\ b % 2 = 1 THEN 1 ELSE 0)
         + 2 * BitAndN(a \div 2, b \div 2, n - 1)

RECURSIVE BitOrN(_, _, _)
BitOrN(a, b, n) ==
    IF n = 0 THEN 0
    ELSE (IF a % 2 = 1 \/ b % 2 = 1 THEN 1 ELSE 0)
         + 2 * BitOrN(a \div 2, b \div 2, n - 1)

\* a & b and a | b on 8-bit values
BitAnd(a, b) == BitAndN(a, b, 8)
BitOr(a, b) == BitOrN(a, b, 8)

Min(a, b) == IF a < b THEN a ELSE b
Max(a, b) == IF a > b THEN a ELSE b

(* ------------------------------------------------------------------ *)
(* bytes_to_num and "%08lx"                                           *)
(* ------------------------------------------------------------------ *)
\* a uint64_t: 16 hexadecimal digits, most significant first
Zero64 == [k \in 1..16 |-> 0]

\* num = (num << 8) | b   in 64 bits: the two top digits fall off
ShiftOr(num, b) == SubSeq(num, 3, 16) \o <<b \div 16, b % 16>>

\* uint64_t bytes_to_num(uint8_t *src, size_t len): big-endian, src[1] first
RECURSIVE bytes_to_num(_, _)
bytes_to_num(src, len) ==
    IF len = 0 THEN Zero64
    ELSE ShiftOr(bytes_to_num(src, len - 1), src[len])

HexChars == <<"0", "1", "2", "3", "4", "5", "6", "7",
              "8", "9", "a", "b", "c", "d", "e", "f">>

\* the digits of num without leading zeros (at least one digit)
RECURSIVE StripZeros(_)
StripZeros(digits) ==
    IF Len(digits) > 1 /\ digits[1] = 0 THEN StripZeros(Tail(digits))
    ELSE digits

\* printf("%0<width>lx", num): lowercase, zero padded to at least width digits
FormatLx(num, width) ==
    LET d == StripZeros(num)
        pad == Max(0, width - Len(d))
    IN  [k \in 1..pad |-> "0"] \o [k \in 1..Len(d) |-> HexChars[d[k] + 1]]

(* ------------------------------------------------------------------ *)
(* The packed options byte                                            *)
(* ------------------------------------------------------------------ *)
\* a fault of the usage test: both (instead of one) must be missing
UsageError_both(opts, hasInput) == opts = 0 /\ ~hasInput

\* if (!options || !input_file)
UsageError(opts, hasInput) == opts = 0 \/ ~hasInput

\* options |= 0x61 for 1024 bytes, options |= 0xF4 for 4096 bytes
ClassifySize(opts, len) ==
    IF len = FILE_SIZE_1K THEN BitOr(opts, OPT_1K)
    ELSE IF len = FILE_SIZE_4K THEN BitOr(opts, OPT_4K)
    ELSE opts

\* a fault of the size test: a mask that also covers the mode bits
HasDensity_widemask(opts) == BitAnd(opts, 15) # 0

\* if (options & 0x05)
HasDensity(opts) == BitAnd(opts, MASK_DENSITY) # 0

\* a fault of the size mask: bit 0x10 lost
SizeBits_narrow(opts) == BitAnd(opts, 224)

\* options & 0xF0: the size of the A (and of the B) key buffer
SizeBits(opts) == BitAnd(opts, MASK_SIZE)

\* a fault of the loop bound: the 1K count for every density
KeyCount_always1k(opts) == KEYS_1K

\* (options & 0x05) == 0x01 ? KEYS_1K : KEYS_4K
KeyCount(opts) == IF BitAnd(opts, MASK_DENSITY) = 1 THEN KEYS_1K ELSE KEYS_4K

\* (options & 0x0A) == 0x02: the mfocGUI files, else the Proxmark file
IsGui(opts) == BitAnd(opts, MASK_MODE) = OPT_MFOC

\* a fault of the doubled size: kept in a uint8_t
LinearSize_u8(opts) == (SizeBits(opts) * 2) % 256

\* (options & 0xF0) * 2, computed in int
LinearSize(opts) == SizeBits(opts) * 2

\* a fault of the stride threshold: off by one
NextStride_late(idx) == IF idx < STRIDE_THRESHOLD + 1 THEN STRIDE_SMALL ELSE STRIDE_LARGE

\* a fault of the stride: the small stride for every sector
NextStride_flat(idx) == STRIDE_SMALL

\* if (i < 31) offset = 0x30; else offset = 0xF0;
NextStride(idx) == IF idx < STRIDE_THRESHOLD THEN STRIDE_SMALL ELSE STRIDE_LARGE

\* a fault of the name: the whole 8-byte UID field
UidNum_whole(uidbuf) == bytes_to_num(uidbuf, UID_SIZE)

\* bytes_to_num(uid, 4)
UidNum(uidbuf) == bytes_to_num(uidbuf, UID_NUM_LEN)

\* sprintf(filename, "a%08lx.dump" | "b%08lx.dump" | "%08lx.bin", bytes_to_num(uid, 4))
NameA(uidbuf) == <<"a">> \o FormatLx(UidNum(uidbuf), HEX_WIDTH) \o <<".", "d", "u", "m", "p">>
NameB(uidbuf) == <<"b">> \o FormatLx(UidNum(uidbuf), HEX_WIDTH) \o <<".", "d", "u", "m", "p">>
NameBin(uidbuf) == FormatLx(UidNum(uidbuf), HEX_WIDTH) \o <<".", "b", "i", "n">>

(* ------------------------------------------------------------------ *)
(* The environment: command lines and dumps                           *)
(* ------------------------------------------------------------------ *)
\* option characters; "x" is one that is not in "hmpv"
Flags == {"m", "p", "h", "v", "x"}

RECURSIVE SeqsUpTo(_, _)
SeqsUpTo(S, n) ==
    IF n = 0 THEN {<<>>}
    ELSE LET R == SeqsUpTo(S, n - 1)
         IN  R \cup {Append(r, x) : r \in {q \in R : Len(q) = n - 1}, x \in S}

\* argv[optind]: absent, a path fopen can not open, or a readable file
InputKinds == {"none", "unreadable", "file"}

\* lengths of the input file
FileLengths == {0, 500, 1023, 1024, 1025, 4095, 4096, 4097}

\* the dumps: two contents, with different UID fields
DumpIds == {1, 2}
UidField(d) ==
    IF d = 1 THEN <<222, 173, 190, 239, 1, 2, 3, 4>>
    ELSE <<0, 10, 27, 44, 159, 158, 157, 156>>

\* sector-0 trailer of dump 1: A1A2A3A4A5A6 FFFF0780 B1B2B3B4B5B6
Trailer0 == <<161, 162, 163, 164, 165, 166, 255, 255, 7, 128,
              177, 178, 179, 180, 181, 182>>

\* the byte at offset k (from 0) of dump d; every 6-byte window is distinct
FileByte(d, k) ==
    IF k < UID_SIZE THEN UidField(d)[k + 1]
    ELSE IF d = 1 /\ k >= 48 /\ k < 64 THEN Trailer0[k - 47]
    ELSE IF k % 2 = 0 THEN ((k \div 2) + 11 * d) % 256
    ELSE ((k \div 512) * 16 + 7 * d + 5) % 256

\* what malloc'ed memory may hold before it is written
GarbageBytes == {0, 205}

\* the bytes fread delivers: got bytes from position pos
FileBytes(d, pos, got) == [k \in 1..got |-> FileByte(d, pos + k - 1)]

\* bytes in the file from pos on, at most len
Available(flen, pos, len) == Max(0, Min(len, flen - pos))

\* the counts fwrite may return for a request of size bytes
WriteCounts(size) == {0, size \div 2, size}

\* buf with bytes stored at offset at (from 0); bytes past the end of buf are cut
Store(buf, at, bytes) ==
    [k \in 1..Len(buf) |->
        IF k > at /\ k <= at + Len(bytes) THEN bytes[k - at] ELSE buf[k]]

\* the first n bytes of buf (fewer when buf is shorter)
Take(buf, n) == SubSeq(buf, 1, Min(n, Len(buf)))

(* ------------------------------------------------------------------ *)
(* State                                                              *)
(* ------------------------------------------------------------------ *)
VARIABLES
    args,        \* option characters getopt has not returned yet
    inputKind,   \* argv[optind]: "none", "unreadable" or "file"
    dumpId,      \* which dump the input file holds
    fileLen,     \* length of the input file on disk
    pc,          \* position in main()
    options,     \* uint8_t options
    inOpen,      \* the input FILE* is open
    everOpened,  \* fopen of the input has succeeded at some point
    pos,         \* file position of the input stream
    filelength,  \* long filelength (ftell), -1 before it is set
    uid,         \* the malloc'ed buffers, <<>> before they exist
    a_keys,
    b_keys,
    output,
    aptr,        \* aptr - a_keys
    bptr,        \* bptr - b_keys
    i,           \* uint8_t i
    offset,      \* uint8_t offset
    filename,    \* char filename[15], as the string sprintf wrote
    outOpen,     \* names of the output FILE*s that are open
    files,       \* the files created, in order: [name, data]
    header,      \* what print_header printed: <<type, uid digits>>, <<>> before
    rows,        \* table rows printed: <<i, key A digits, key B digits>>
    report,      \* the message the run ended with, "none" when there was none
    exitStatus,  \* the value main() returned, -1 while it runs
    reads,       \* the freads made: [kind, idx, pos, len, got, off, clean];
                 \* clean: no earlier key read has moved the position short
    failures,    \* the I/O calls that failed or came back short
    oob          \* a buffer was written or read past its end

vars == <<args, inputKind, dumpId, fileLen, pc, options, inOpen, everOpened,
          pos, filelength, uid, a_keys, b_keys, output, aptr, bptr, i, offset,
          filename, outOpen, files, header, rows, report, exitStatus, reads,
          failures, oob>>

env == <<inputKind, dumpId, fileLen>>
bufs == <<uid, a_keys, b_keys, output, aptr, bptr>>
loopv == <<i, offset>>
outv == <<filename, outOpen, files>>
printv == <<header, rows>>

Init ==
    /\ args \in SeqsUpTo(Flags, MaxFlags)
    /\ inputKind \in InputKinds
    /\ IF inputKind = "file"
       THEN dumpId \in DumpIds /\ fileLen \in FileLengths
       ELSE dumpId = 1 /\ fileLen = 0
    /\ pc = "getopt"
    /\ options = 0
    /\ inOpen = FALSE
    /\ everOpened = FALSE
    /\ pos = 0
    /\ filelength = -1
    /\ uid = <<>> /\ a_keys = <<>> /\ b_keys = <<>> /\ output = <<>>
    /\ aptr = 0 /\ bptr = 0
    /\ i = 0 /\ offset = 0
    /\ filename = <<>>
    /\ outOpen = {}
    /\ files = <<>>
    /\ header = <<>>
    /\ rows = <<>>
    /\ report = "none"
    /\ exitStatus = -1
    /\ reads = <<>>
    /\ failures = {}
    /\ oob = FALSE

\* return status; with the message msg
Return(status, msg) ==
    /\ pc' = "done"
    /\ exitStatus' = status
    /\ report' = msg

(* ------------------------------------------------------------------ *)
(* main(): the command line                                           *)
(* ------------------------------------------------------------------ *)
\* one turn of while ((ch = getopt(argc, argv, "hmpv")) != -1)
GetoptOption ==
    /\ pc = "getopt"
    /\ args # <<>>
    /\ args' = Tail(args)
    /\ LET ch == Head(args) IN
       CASE ch = "m" -> /\ options' = BitOr(options, OPT_MFOC)
                        /\ UNCHANGED <<pc, exitStatus, report>>
         [] ch = "p" -> /\ options' = BitOr(options, OPT_PROXMARK)
                        /\ UNCHANGED <<pc, exitStatus, report>>
         [] ch = "v" -> Return(1, "version") /\ UNCHANGED options
         [] ch = "h" -> Return(1, "usage") /\ UNCHANGED options
         [] OTHER    -> Return(1, "getopt") /\ UNCHANGED options
    /\ UNCHANGED <<env, inOpen, everOpened, pos, filelength, bufs, loopv, outv,
                   printv, reads, failures, oob>>

\* input_file = argv[optind]; if (!options || !input_file) usage, return 1
CheckUsage ==
    /\ pc = "getopt"
    /\ args = <<>>
    /\ IF UsageError(options, inputKind # "none")
       THEN Return(1, "usage")
       ELSE pc' = "open" /\ UNCHANGED <<exitStatus, report>>
    /\ UNCHANGED <<args, env, options, inOpen, everOpened, pos, filelength, bufs,
                   loopv, outv, printv, reads, failures, oob>>

(* ------------------------------------------------------------------ *)
(* main(): the input file and its size                                *)
(* ------------------------------------------------------------------ *)
\* if ((file = fopen(input_file, "rb"))) ... else "Can not open file"
OpenInput ==
    /\ pc = "open"
    /\ IF inputKind = "file"
       THEN /\ inOpen' = TRUE
            /\ everOpened' = TRUE
            /\ pc' = "size"
            /\ UNCHANGED <<exitStatus, report, failures>>
       ELSE /\ Return(1, "open_input")
            /\ failures' = failures \cup {"open_input"}
            /\ UNCHANGED <<inOpen, everOpened>>
    /\ UNCHANGED <<args, env, options, pos, filelength, bufs, loopv, outv,
                   printv, reads, oob>>

\* fseek(SEEK_END), ftell, the two size tests, if (options & 0x05) ... else
\* fclose, "is not the correct size", return 1
MeasureSize ==
    /\ pc = "size"
    /\ pos' = fileLen
    /\ filelength' = fileLen
    /\ options' = ClassifySize(options, fileLen)
    /\ IF HasDensity(options')
       THEN pc' = "alloc" /\ UNCHANGED <<inOpen, exitStatus, report>>
       ELSE inOpen' = FALSE /\ Return(1, "size")
    /\ UNCHANGED <<args, env, everOpened, bufs, loopv, outv, printv, reads,
                   failures, oob>>

\* the three mallocs (uid, a_keys, b_keys); on NULL "Can not allocate", return 1
\* without fclose(file); else aptr = a_keys, bptr = b_keys
AllocBuffers ==
    /\ pc = "alloc"
    /\ \E ok \in BOOLEAN, g \in GarbageBytes :
         IF ok
         THEN /\ uid' = [k \in 1..UID_SIZE |-> g]
              /\ a_keys' = [k \in 1..SizeBits(options) |-> g]
              /\ b_keys' = [k \in 1..SizeBits(options) |-> g]
              /\ aptr' = 0
              /\ bptr' = 0
              /\ pc' = "read_uid"
              /\ UNCHANGED <<exitStatus, report>>
         ELSE /\ g = 0
              /\ Return(1, "alloc")
              /\ UNCHANGED <<uid, a_keys, b_keys, aptr, bptr>>
    /\ UNCHANGED <<args, env, options, inOpen, everOpened, pos, filelength,
                   output, loopv, outv, printv, reads, failures, oob>>

(* ------------------------------------------------------------------ *)
(* main(): reading the UID and the keys                               *)
(* ------------------------------------------------------------------ *)
\* the counts fread may return for len bytes asked at position p: all that the
\* file holds there, or fewer when the device fails (once in a run)
ReadCounts(p, len) ==
    LET avail == Available(fileLen, p, len)
    IN  {avail} \cup (IF "read" \in failures THEN {} ELSE {0, avail \div 2})

\* the n bytes at buf + at, as bytes_to_num and fwrite read them
At(buf, at, n) == [k \in 1..n |-> IF at + k <= Len(buf) THEN buf[at + k] ELSE 0]

\* bookkeeping of one fread(buf + at, 1, len, file) at position p that returned got
Fread(kind, p, len, got, buflen, at) ==
    /\ reads' = Append(reads, [kind |-> kind, idx |-> i, pos |-> p, len |-> len,
                               got |-> got, off |-> offset,
                               clean |-> \/ reads = <<>>
                                         \/ LET last == reads[Len(reads)]
                                            IN  /\ last.clean
                                                /\ \/ last.kind = "uid"
                                                   \/ last.got = last.len])
    /\ failures' = IF got < len THEN failures \cup {"read"} ELSE failures
    /\ oob' = (oob \/ at + got > buflen)

\* fseek(file, 0, SEEK_SET); fread(uid, 1, UID_SIZE, file); print_header;
\* fseek(file, 0x30, SEEK_SET); i = 0, offset = 0
ReadUid ==
    /\ pc = "read_uid"
    /\ \E got \in ReadCounts(0, UID_SIZE) :
         /\ uid' = Store(uid, 0, FileBytes(dumpId, 0, got))
         /\ Fread("uid", 0, UID_SIZE, got, Len(uid), 0)
    /\ header' = <<BitAnd(options, MASK_DENSITY),
                   FormatLx(UidNum(At(uid', 0, UID_SIZE)), HEX_WIDTH)>>
    /\ pos' = FIRST_KEY_OFFSET
    /\ i' = 0
    /\ offset' = 0
    /\ pc' = "loop"
    /\ UNCHANGED <<args, env, options, inOpen, everOpened, filelength, a_keys,
                   b_keys, output, aptr, bptr, outv, rows, report, exitStatus>>

\* i < count; fseek(file, offset, SEEK_CUR); fread(aptr, 1, KEY_SIZE, file)
ReadKeyA ==
    /\ pc = "loop"
    /\ i < KeyCount(options)
    /\ \E got \in ReadCounts(pos + offset, KEY_SIZE) :
         /\ a_keys' = Store(a_keys, aptr, FileBytes(dumpId, pos + offset, got))
         /\ Fread("A", pos + offset, KEY_SIZE, got, Len(a_keys), aptr)
         /\ pos' = pos + offset + got
    /\ pc' = "read_b"
    /\ UNCHANGED <<args, env, options, inOpen, everOpened, filelength, uid,
                   b_keys, output, aptr, bptr, loopv, outv, printv, report,
                   exitStatus>>

\* fseek(file, 0x04, SEEK_CUR); fread(bptr, 1, KEY_SIZE, file); the table row;
\* aptr += KEY_SIZE; bptr += KEY_SIZE; the next offset; i++
ReadKeyB ==
    /\ pc = "read_b"
    /\ \E got \in ReadCounts(pos + ACCESS_SKIP, KEY_SIZE) :
         /\ b_keys' = Store(b_keys, bptr, FileBytes(dumpId, pos + ACCESS_SKIP, got))
         /\ Fread("B", pos + ACCESS_SKIP, KEY_SIZE, got, Len(b_keys), bptr)
         /\ pos' = pos + ACCESS_SKIP + got
    /\ rows' = Append(rows,
                 <<i,
                   FormatLx(bytes_to_num(At(a_keys, aptr, KEY_SIZE), KEY_SIZE), KEY_HEX_WIDTH),
                   FormatLx(bytes_to_num(At(b_keys', bptr, KEY_SIZE), KEY_SIZE), KEY_HEX_WIDTH)>>)
    /\ aptr' = aptr + KEY_SIZE
    /\ bptr' = bptr + KEY_SIZE
    /\ offset' = NextStride(i)
    /\ i' = i + 1
    /\ pc' = "loop"
    /\ UNCHANGED <<args, env, options, inOpen, everOpened, filelength, uid,
                   a_keys, output, outv, header, report, exitStatus>>

\* the loop is over: print_seperator, fclose(file), and the choice of the format
CloseInput ==
    /\ pc = "loop"
    /\ i >= KeyCount(options)
    /\ inOpen' = FALSE
    /\ pc' = IF IsGui(options) THEN "write_a" ELSE "linear"
    /\ UNCHANGED <<args, env, options, everOpened, pos, filelength, bufs, loopv,
                   outv, printv, report, exitStatus, reads, failures, oob>>

(* ------------------------------------------------------------------ *)
(* write_keys and the two output formats                              *)
(* ------------------------------------------------------------------ *)
\* uint8_t write_keys(keys, filename, size), called with filename = name; on
\* return 0 main goes on at okpc, on return 1 main returns 1
write_keys(keys, name, size, okpc) ==
    /\ filename' = name
    /\ \E opened \in BOOLEAN, n \in WriteCounts(size) :
         IF ~opened
         THEN /\ n = 0
              /\ Return(1, "open_output")
              /\ failures' = failures \cup {"open_output"}
              /\ UNCHANGED <<outOpen, files, oob>>
         ELSE /\ files' = Append(files, [name |-> name, data |-> At(keys, 0, n)])
              /\ oob' = (oob \/ n > Len(keys))
              /\ failures' = IF n < size THEN failures \cup {"write"} ELSE failures
              /\ IF n = 0
                 THEN /\ Return(1, "write_output")
                      /\ outOpen' = outOpen \cup {name}
                 ELSE /\ outOpen' = outOpen
                      /\ pc' = okpc
                      /\ UNCHANGED <<exitStatus, report>>

\* sprintf(filename, "a%08lx.dump", ...); if (write_keys(a_keys, ...)) return 1
GuiWriteA ==
    /\ pc = "write_a"
    /\ write_keys(a_keys, NameA(uid), SizeBits(options), "write_b")
    /\ UNCHANGED <<args, env, options, inOpen, everOpened, pos, filelength, bufs,
                   loopv, printv, reads>>

\* sprintf(filename, "b%08lx.dump", ...); if (write_keys(b_keys, ...)) return 1
GuiWriteB ==
    /\ pc = "write_b"
    /\ write_keys(b_keys, NameB(uid), SizeBits(options), "return")
    /\ UNCHANGED <<args, env, options, inOpen, everOpened, pos, filelength, bufs,
                   loopv, printv, reads>>

\* sprintf(filename, "%08lx.bin", ...); output = malloc(2 * size) and the two
\* memmoves, or "Can not allocate", return 1
LinearBuild ==
    /\ pc = "linear"
    /\ filename' = NameBin(uid)
    /\ \E ok \in BOOLEAN, g \in GarbageBytes :
         IF ok
         THEN LET n == SizeBits(options)
                  fresh == [k \in 1..LinearSize(options) |-> g]
              IN  /\ output' = Store(Store(fresh, 0, At(a_keys, 0, n)), n, At(b_keys, 0, n))
                  /\ oob' = (oob \/ n > Len(a_keys) \/ n > Len(b_keys)
                                 \/ 2 * n > LinearSize(options))
                  /\ pc' = "write_bin"
                  /\ UNCHANGED <<exitStatus, report>>
         ELSE /\ g = 0
              /\ Return(1, "alloc")
              /\ UNCHANGED <<output, oob>>
    /\ UNCHANGED <<args, env, options, inOpen, everOpened, pos, filelength, uid,
                   a_keys, b_keys, aptr, bptr, loopv, outOpen, files, printv,
                   reads, failures>>

\* if (write_keys(output, filename, (options & 0xF0) * 2)) return 1
LinearWrite ==
    /\ pc = "write_bin"
    /\ write_keys(output, filename, LinearSize(options), "return")
    /\ UNCHANGED <<args, env, options, inOpen, everOpened, pos, filelength, bufs,
                   loopv, printv, reads>>

\* return 0
ReturnOk ==
    /\ pc = "return"
    /\ Return(0, report)
    /\ UNCHANGED <<args, env, options, inOpen, everOpened, pos, filelength, bufs,
                   loopv, outv, printv, reads, failures, oob>>

Next ==
    \/ GetoptOption
    \/ CheckUsage
    \/ OpenInput
    \/ MeasureSize
    \/ AllocBuffers
    \/ ReadUid
    \/ ReadKeyA
    \/ ReadKeyB
    \/ CloseInput
    \/ GuiWriteA
    \/ GuiWriteB
    \/ LinearBuild
    \/ LinearWrite
    \/ ReturnOk

Spec == Init /\ [][Next]_vars

(* ------------------------------------------------------------------ *)
(* The Mifare Classic layout, as the card defines it                  *)
(* ------------------------------------------------------------------ *)
\* sectors 0..31 have 4 blocks of 16 bytes, sectors 32.. have 16 blocks
BlocksIn(s) == IF s < 32 THEN 4 ELSE 16

RECURSIVE SectorStart(_)
SectorStart(s) == IF s = 0 THEN 0 ELSE SectorStart(s - 1) + 16 * BlocksIn(s - 1)

\* the trailer is the last block of its sector
TrailerOffset(s) == SectorStart(s) + 16 * (BlocksIn(s) - 1)

\* 0x30 + 0x40 * s up to sector 31, 0x8F0 + 0x100 * (s - 32) from sector 32
ClosedOffset(s) == IF s <= 31 THEN 48 + 64 * s ELSE 2288 + 256 * (s - 32)

Trailers == [s \in 0..39 |-> TrailerOffset(s)]

ValidLen == fileLen \in {1024, 4096}
PairsOf(len) == IF len = 1024 THEN 16 ELSE 40
RegionOf(len) == IF len = 1024 THEN 96 ELSE 240

\* all keys A (at +0) or all keys B (at +10) of the first n sectors of dump d
KeysOf(d, n, shift) ==
    [k \in 1..(6 * n) |-> FileByte(d, Trailers[(k - 1) \div 6] + shift + ((k - 1) % 6))]

ExpectedA == [d \in DumpIds |-> [n \in {16, 40} |-> KeysOf(d, n, 0)]]
ExpectedB == [d \in DumpIds |-> [n \in {16, 40} |-> KeysOf(d, n, 10)]]

\* the first four bytes of dump d as 8 lowercase hexadecimal digits
Hex8 ==
    [d \in DumpIds |->
        [k \in 1..8 |->
            LET b == FileByte(d, (k - 1) \div 2)
            IN  HexChars[(IF k % 2 = 1 THEN b \div 16 ELSE b % 16) + 1]]]

\* the decode loop has ended and the input was closed after it
LoopDone == header # <<>> /\ ~inOpen
KeyReads == {r \in 1..Len(reads) : reads[r].kind # "uid"}
AllKeyReadsFull == \A r \in KeyReads : reads[r].got = reads[r].len
UidReadFull == Len(reads) >= 1 /\ reads[1].got = reads[1].len
ModeBits == BitAnd(options, MASK_MODE)
Succeeded == pc = "done" /\ exitStatus = 0

(* ------------------------------------------------------------------ *)
(* Claims                                                             *)
(* ------------------------------------------------------------------ *)
\* C1: an input that was opened and is neither 1024 nor 4096 bytes long ends in
\* the size error: no fread was made, no buffer exists, no output file was opened
\* or created, and the exit status is 1 with the size message.
C1_InvalidSize ==
    (everOpened /\ ~ValidLen) =>
        /\ pc \in {"size", "done"}
        /\ reads = <<>>
        /\ uid = <<>> /\ a_keys = <<>> /\ b_keys = <<>>
        /\ files = <<>> /\ outOpen = {}
        /\ pc = "done" => (exitStatus = 1 /\ report = "size" /\ ~inOpen)

C1_Witness ==
    /\ pc = "done" /\ everOpened /\ fileLen = 500 /\ ModeBits = OPT_MFOC
    /\ report = "size" /\ exitStatus = 1

\* the layout of the card and the closed form agree on every sector
TrailersClosedForm == \A s \in 0..39 : Trailers[s] = ClosedOffset(s)

\* read r is at the trailer of its sector (key B 10 bytes in), and when it was
\* delivered in full the 6 bytes found there are at 6 * idx of its buffer
ReadAtTrailer(r) ==
    LET rd == reads[r]
        at == Trailers[rd.idx] + (IF rd.kind = "A" THEN 0 ELSE 10)
    IN  rd.clean =>
          /\ rd.pos = at
          /\ rd.got = rd.len =>
               At((IF rd.kind = "A" THEN a_keys ELSE b_keys), 6 * rd.idx, 6)
                   = FileBytes(dumpId, at, 6)

\* C2: on a valid dump every key read made before any short key read is at the
\* trailer of its sector (key A at the trailer, key B 10 bytes later), the
\* trailer being the last block of the sector and equal to the closed form; every
\* such read that was delivered in full has stored the 6 bytes found there at
\* 6 * i of its buffer, and they are still there when the loop has ended; the
\* loop ends after the last sector of the density.
C2_TrailerKeys ==
    ValidLen =>
        /\ TrailersClosedForm
        /\ Len(reads) > 1 => ReadAtTrailer(Len(reads))
        /\ LoopDone =>
             /\ i = PairsOf(fileLen)
             /\ Cardinality(KeyReads) = 2 * i
             /\ pc \in {"write_a", "linear"} => \A r \in KeyReads : ReadAtTrailer(r)

C2_Witness ==
    /\ pc = "return" /\ fileLen = 4096 /\ failures = {}
    /\ i = 40
    /\ reads[80].pos = 4080 /\ reads[81].pos = 4090
    /\ At(a_keys, 234, 6) = FileBytes(dumpId, 4080, 6)

\* C5: a successful run has written the files of exactly one format, the a/b pair
\* exactly when -m alone was given and the single .bin otherwise; files of the two
\* formats never coexist; and a run that left the option loop without a mode flag
\* or without an input path has ended with exit status 1 (the usage message, or
\* the version or getopt message when -v or an unknown option ended it), has
\* never opened the input and has written no file.
C5_OneEncoder ==
    LET isDump(f) == SubSeq(f.name, Len(f.name) - 4, Len(f.name)) = <<".", "d", "u", "m", "p">>
        isBin(f) == SubSeq(f.name, Len(f.name) - 3, Len(f.name)) = <<".", "b", "i", "n">>
        F == {files[k] : k \in 1..Len(files)}
    IN  /\ (\A f \in F : isDump(f)) \/ (\A f \in F : isBin(f))
        /\ Succeeded =>
             IF ModeBits = OPT_MFOC
             THEN /\ Len(files) = 2
                  /\ isDump(files[1]) /\ files[1].name[1] = "a"
                  /\ isDump(files[2]) /\ files[2].name[1] = "b"
                  /\ output = <<>>
             ELSE /\ Len(files) = 1
                  /\ isBin(files[1])
        /\ (pc # "getopt" /\ (ModeBits = 0 \/ inputKind = "none")) =>
             /\ pc = "done" /\ exitStatus = 1
             /\ report \in {"usage", "version", "getopt"}
             /\ ~everOpened /\ ~inOpen
             /\ files = <<>> /\ outOpen = {}

C5_Witness ==
    /\ Succeeded /\ ModeBits = MASK_MODE /\ Len(files) = 1
    /\ files[1].name = Hex8[dumpId] \o <<".", "b", "i", "n">>

\* C6: after the loop a 1024-byte dump has given 16 pairs and a 4096-byte dump 40,
\* whatever the mode bits: sectors 0..N-1 in order, one key A read and one key B
\* read of 6 bytes each per sector, both buffer pointers advanced by 6 per pair.
C6_PairCount ==
    (ValidLen /\ header # <<>>) =>
        /\ i <= PairsOf(fileLen)
        /\ KeyCount(options) = PairsOf(fileLen)
        /\ aptr = KEY_SIZE * i /\ bptr = KEY_SIZE * i
        /\ Len(rows) = i
        /\ i > 0 => rows[i][1] = i - 1
        /\ Len(reads) = 1 + 2 * i + (IF pc = "read_b" THEN 1 ELSE 0)
        /\ Len(reads) > 1 =>
             LET r == Len(reads)
             IN  /\ reads[r].len = 6
                 /\ reads[r].idx = (r - 2) \div 2
                 /\ reads[r].kind = (IF r % 2 = 0 THEN "A" ELSE "B")
        /\ LoopDone =>
             /\ i = PairsOf(fileLen)
             /\ \A k \in 1..i : rows[k][1] = k - 1
             /\ \A k \in 1..i : Len(rows[k][2]) = 12 /\ Len(rows[k][3]) = 12
             /\ Len(a_keys) = KEY_SIZE * i /\ Len(b_keys) = KEY_SIZE * i

C6_Witness ==
    /\ LoopDone /\ fileLen = 4096 /\ ModeBits = MASK_MODE
    /\ i = 40 /\ Len(rows) = 40 /\ Len(reads) = 81

\* C7: the size taken from the options byte is 6 bytes per pair (96 or 240) for
\* every mode; both key buffers have that size and are never accessed past their
\* end; the loop ends with both pointers at the end of their buffer; when every
\* key read was delivered in full the buffers are all keys A and all keys B in
\* sector order; and in mfocGUI mode the first file holds the A buffer and the
\* second the B buffer, whole when fwrite wrote the whole request.
C7_GuiBuffers ==
    (ValidLen /\ header # <<>>) =>
        /\ SizeBits(options) = KEY_SIZE * KeyCount(options)
        /\ SizeBits(options) = RegionOf(fileLen)
        /\ Len(a_keys) = SizeBits(options) /\ Len(b_keys) = SizeBits(options)
        /\ ~oob
        /\ aptr <= Len(a_keys) /\ bptr <= Len(b_keys)
        /\ LoopDone =>
             /\ aptr = Len(a_keys) /\ bptr = Len(b_keys)
             /\ AllKeyReadsFull =>
                  /\ a_keys = ExpectedA[dumpId][PairsOf(fileLen)]
                  /\ b_keys = ExpectedB[dumpId][PairsOf(fileLen)]
        /\ (IsGui(options) /\ Len(files) >= 1) =>
             /\ files[1].data = Take(a_keys, Len(files[1].data))
             /\ "write" \notin failures => files[1].data = a_keys
        /\ (IsGui(options) /\ Len(files) >= 2) =>
             /\ files[2].data = Take(b_keys, Len(files[2].data))
             /\ "write" \notin failures => files[2].data = b_keys

C7_Witness ==
    /\ Succeeded /\ IsGui(options) /\ fileLen = 4096 /\ failures = {}
    /\ Len(files) = 2
    /\ files[1].data = ExpectedA[dumpId][40] /\ Len(files[1].data) = 240
    /\ files[2].data = ExpectedB[dumpId][40]

\* C8: in Proxmark mode the output buffer is the A buffer followed by the B
\* buffer, twice the size of the A buffer (192 or 480 bytes); with every key read
\* delivered in full that is all keys A then all keys B in sector order; and the
\* file holds that buffer, whole when fwrite wrote the whole request.
C8_LinearBuffer ==
    (ValidLen /\ output # <<>>) =>
        /\ ~IsGui(options)
        /\ output = a_keys \o b_keys
        /\ Len(output) = 2 * Len(a_keys)
        /\ Len(output) = 2 * RegionOf(fileLen)
        /\ LinearSize(options) = Len(output)
        /\ AllKeyReadsFull =>
             output = ExpectedA[dumpId][PairsOf(fileLen)] \o ExpectedB[dumpId][PairsOf(fileLen)]
        /\ Len(files) >= 1 =>
             /\ Len(files) = 1
             /\ files[1].data = Take(output, Len(files[1].data))
             /\ "write" \notin failures => files[1].data = output

C8_Witness ==
    /\ Succeeded /\ ~IsGui(options) /\ fileLen = 4096 /\ failures = {}
    /\ Len(files) = 1 /\ Len(files[1].data) = 480
    /\ files[1].data = ExpectedA[dumpId][40] \o ExpectedB[dumpId][40]

\* C9: every name written to the filename buffer fits it with its terminator and
\* is 8 lowercase hexadecimal digits between the prefix and the suffix of its
\* format; once the UID field was read in full those digits are the first four
\* bytes of the dump, most significant first, whatever bytes 4..7 are; mfocGUI
\* mode creates the a file and then the b file with the same digits, Proxmark
\* mode creates the .bin file.
C9_FileNames ==
    LET dump == <<".", "d", "u", "m", "p">>
        bin == <<".", "b", "i", "n">>
        digits(name) == IF name[1] \in {"a", "b"} /\ Len(name) = 14
                        THEN SubSeq(name, 2, 9) ELSE SubSeq(name, 1, 8)
        hexOf(name) == IF UidReadFull THEN Hex8[dumpId] ELSE digits(name)
        wellFormed(name) ==
            /\ Len(name) + 1 <= FILENAME_SIZE
            /\ \A k \in 1..8 : \E h \in 1..16 : digits(name)[k] = HexChars[h]
    IN  /\ filename # <<>> =>
             /\ wellFormed(filename)
             /\ filename \in {<<"a">> \o hexOf(filename) \o dump,
                              <<"b">> \o hexOf(filename) \o dump,
                              hexOf(filename) \o bin}
        /\ \A k \in 1..Len(files) :
             /\ wellFormed(files[k].name)
             /\ files[k].name =
                  IF IsGui(options)
                  THEN <<(IF k = 1 THEN "a" ELSE "b")>> \o hexOf(files[k].name) \o dump
                  ELSE hexOf(files[k].name) \o bin
        /\ Len(files) = 2 => digits(files[1].name) = digits(files[2].name)
        /\ header # <<>> => header[2] = hexOf(<<"a">> \o header[2] \o dump)

C9_Witness ==
    /\ Succeeded /\ IsGui(options) /\ dumpId = 2 /\ UidReadFull
    /\ files[1].name = <<"a", "0", "0", "0", "a", "1", "b", "2", "c", ".", "d", "u", "m", "p">>
    /\ files[2].name = <<"b", "0", "0", "0", "a", "1", "b", "2", "c", ".", "d", "u", "m", "p">>

\* the conditions of C10 on key read r
ReadInside(r) ==
    LET rd == reads[r]
    IN  /\ rd.off = (IF rd.idx >= 32 THEN STRIDE_LARGE
                     ELSE IF rd.idx = 0 THEN 0 ELSE STRIDE_SMALL)
        /\ rd.clean =>
             /\ rd.pos + KEY_SIZE <= fileLen
             /\ rd.pos >= FIRST_KEY_OFFSET
             /\ r > 2 => rd.pos >= reads[r - 1].pos + reads[r - 1].len

\* C10: on a valid dump every key read made before any short key read lies
\* inside the dump and starts at or after the end of the read before it (the
\* cursor only grows); with no short key read the cursor is at the end of the
\* dump, 0x400 or 0x1000, when the loop ends; and the offset applied before the
\* reads of a pair is 0xF0 exactly for pairs 32..39, so never on a 1K dump.
C10_Cursor ==
    ValidLen =>
        /\ Len(reads) > 1 => ReadInside(Len(reads))
        /\ (Len(reads) > 1 /\ fileLen = 1024) => reads[Len(reads)].off # STRIDE_LARGE
        /\ (pc = "loop" /\ i >= KeyCount(options)) =>
             /\ \A r \in KeyReads : ReadInside(r)
             /\ Cardinality({r \in KeyReads : reads[r].off = STRIDE_LARGE})
                  = (IF fileLen = 1024 THEN 0 ELSE 16)
             /\ AllKeyReadsFull => pos = fileLen

C10_Witness ==
    /\ pc = "loop" /\ i = 40 /\ fileLen = 4096 /\ pos = 4096 /\ AllKeyReadsFull
    /\ reads[66].off = 240 /\ reads[65].off = 48

\* C3: when main has returned, no file handle the run opened is still open.
C3_HandlesReleased == pc = "done" => (~inOpen /\ outOpen = {})

\* C4: when main has returned after an open, a read or a write failed or came
\* back short, the exit status is not 0 and an error was reported.
C4_FailuresSurfaced == (pc = "done" /\ failures # {}) => (exitStatus # 0 /\ report # "none")

====
